---------------------------- MODULE Spec2Model ----------------------------
(***************************************************************************)
(* A model of the five stateful examples of the design-pattern collection: *)
(* Observer, Iterator, Singleton, Strategy and Decorator.  The examples    *)
(* share nothing, so each has its own variables, its own actions and its   *)
(* own specification; the variables of the other examples stay unchanged.  *)
(*                                                                         *)
(* Every example carries a trace variable: the calls a client has made so  *)
(* far, each with what the call produced (the lines it printed, the value  *)
(* it returned, the exception it raised).  The client is any sequence of   *)
(* calls, not only the one the file's usage section makes.                 *)
(***************************************************************************)
EXTENDS Integers, Sequences, FiniteSets

VARIABLES
    observers,        \* Subject._observers: list of observer identities
    state,            \* Subject._state
    obsTrace,         \* calls made on the subject, with their effects
    items,            \* MyCollection._items
    cursors,          \* the MyIterator objects created so far
    itTrace,          \* calls made on the collection and its cursors
    instance,         \* Singleton._instance: None or an object identity
    objs,             \* the Singleton objects allocated, by identity
    refs,             \* the references the Singleton() requests returned
    sgTrace,          \* Singleton() requests and increment calls
    payment_strategy, \* ShoppingCart._payment_strategy
    stTrace,          \* calls made on the cart, with the pay() calls made
    func,             \* the decorated function: base and wrapper stack
    dcTrace           \* decorations and calls, with events and return value

obsVars == <<observers, state, obsTrace>>
itVars  == <<items, cursors, itTrace>>
sgVars  == <<instance, objs, refs, sgTrace>>
stVars  == <<payment_strategy, stTrace>>
dcVars  == <<func, dcTrace>>
vars    == <<obsVars, itVars, sgVars, stVars, dcVars>>

\* Python's None, distinct from every value the models store.
None == -1

Last(s) == s[Len(s)]

Range(s) == {s[i] : i \in 1..Len(s)}

(***************************************************************************)
(*                               Observer                                  *)
(***************************************************************************)
NumObservers == 2
MaxObsCalls  == 5

ObserverIds == 1..NumObservers
StateValues == {10, 20}

\* Observer.update: prints one line naming the observer and the state.
Update(observer, st) == [observer |-> observer, state |-> st]

\* A _notify that walks the list back to front.
RECURSIVE NotifyBackToFront(_, _)
NotifyBackToFront(obs, st) ==
    IF obs = <<>> THEN <<>>
    ELSE NotifyBackToFront(Tail(obs), st) \o <<Update(Head(obs), st)>>

\* Subject._notify: update every entry of the list, front to back.
RECURSIVE Notify(_, _)
Notify(obs, st) ==
    IF obs = <<>> THEN <<>>
    ELSE <<Update(Head(obs), st)>> \o Notify(Tail(obs), st)

\* list.index: position of the first entry equal to x, 0 when there is none.
IndexOf(l, x) ==
    IF \E i \in 1..Len(l) : l[i] = x
    THEN CHOOSE i \in 1..Len(l) : l[i] = x /\ \A j \in 1..(i - 1) : l[j] # x
    ELSE 0

\* A remove that drops the last entry equal to x instead of the first.
ListRemoveLast(l, x) ==
    LET i == CHOOSE k \in 1..Len(l) :
                 l[k] = x /\ \A j \in (k + 1)..Len(l) : l[j] # x
    IN  SubSeq(l, 1, i - 1) \o SubSeq(l, i + 1, Len(l))

\* list.remove on a list that holds x: drops the first entry equal to x.
ListRemove(l, x) ==
    SubSeq(l, 1, IndexOf(l, x) - 1) \o SubSeq(l, IndexOf(l, x) + 1, Len(l))

ObsCall(op, arg, raised, notes) ==
    [op |-> op, arg |-> arg, raised |-> raised, notes |-> notes]

ObsInit ==
    /\ observers = <<>>
    /\ state = None
    /\ obsTrace = <<>>

Attach(o) ==
    /\ Len(obsTrace) < MaxObsCalls
    /\ observers' = Append(observers, o)
    /\ state' = state
    /\ obsTrace' = Append(obsTrace, ObsCall("attach", o, FALSE, <<>>))
    /\ UNCHANGED <<itVars, sgVars, stVars, dcVars>>

\* A detach that answers like detach but leaves the list as it is.
DetachKeeps(o) ==
    /\ Len(obsTrace) < MaxObsCalls
    /\ observers' = observers
    /\ obsTrace' = Append(obsTrace,
           ObsCall("detach", o, o \notin Range(observers), <<>>))
    /\ state' = state
    /\ UNCHANGED <<itVars, sgVars, stVars, dcVars>>

\* detach: list.remove drops the first matching entry, and raises ValueError
\* (leaving the list as it was) when no entry matches.
Detach(o) ==
    /\ Len(obsTrace) < MaxObsCalls
    /\ IF o \in Range(observers)
       THEN /\ observers' = ListRemove(observers, o)
            /\ obsTrace' = Append(obsTrace, ObsCall("detach", o, FALSE, <<>>))
       ELSE /\ observers' = observers
            /\ obsTrace' = Append(obsTrace, ObsCall("detach", o, TRUE, <<>>))
    /\ state' = state
    /\ UNCHANGED <<itVars, sgVars, stVars, dcVars>>

\* The state setter: store, then notify.
SetState(v) ==
    /\ Len(obsTrace) < MaxObsCalls
    /\ state' = v
    /\ observers' = observers
    /\ obsTrace' = Append(obsTrace, ObsCall("set", v, FALSE, Notify(observers, state')))
    /\ UNCHANGED <<itVars, sgVars, stVars, dcVars>>

(***************************************************************************)
(*                               Iterator                                  *)
(***************************************************************************)
NumItems   == 2
MaxCursors == 2
MaxItCalls == 7

Items == 1..NumItems

ItCall(op, arg, stop, value) ==
    [op |-> op, arg |-> arg, stop |-> stop, value |-> value]

ItInit ==
    /\ items = <<>>
    /\ cursors = <<>>
    /\ itTrace = <<>>

\* MyCollection.add_item
AddItem(x) ==
    /\ Len(itTrace) < MaxItCalls
    /\ items' = Append(items, x)
    /\ cursors' = cursors
    /\ itTrace' = Append(itTrace, ItCall("add", x, FALSE, None))
    /\ UNCHANGED <<obsVars, sgVars, stVars, dcVars>>

\* MyIterator.__init__: the cursor keeps a reference to the list it is given
\* and starts at index 0.
NewCursor == [index |-> 0]

\* MyCollection.__iter__: hands the collection's own list to a new cursor, so
\* the list a cursor reads is always the variable items.
Iter ==
    /\ Len(itTrace) < MaxItCalls
    /\ Len(cursors) < MaxCursors
    /\ cursors' = Append(cursors, NewCursor)
    /\ items' = items
    /\ itTrace' = Append(itTrace, ItCall("iter", Len(cursors) + 1, FALSE, None))
    /\ UNCHANGED <<obsVars, sgVars, stVars, dcVars>>

\* The number of items the collection held when cursor c was created.
LenAtCreation(c) ==
    LET made == CHOOSE j \in 1..Len(itTrace) :
                    itTrace[j].op = "iter" /\ itTrace[j].arg = c
    IN  Cardinality({j \in 1..made : itTrace[j].op = "add"})

\* A __next__ whose cursor reads a copy of the list taken at its creation.
IterNextOfCopy(c) ==
    /\ Len(itTrace) < MaxItCalls
    /\ c \in 1..Len(cursors)
    /\ IF cursors[c].index < LenAtCreation(c)
       THEN /\ cursors' = [cursors EXCEPT ![c].index = @ + 1]
            /\ itTrace' = Append(itTrace,
                   ItCall("next", c, FALSE, items[cursors[c].index + 1]))
       ELSE /\ cursors' = cursors
            /\ itTrace' = Append(itTrace, ItCall("next", c, TRUE, None))
    /\ items' = items
    /\ UNCHANGED <<obsVars, sgVars, stVars, dcVars>>

\* A __next__ that stops one item early (index < len - 1).
IterNextStopsEarly(c) ==
    /\ Len(itTrace) < MaxItCalls
    /\ c \in 1..Len(cursors)
    /\ IF cursors[c].index < Len(items) - 1
       THEN /\ cursors' = [cursors EXCEPT ![c].index = @ + 1]
            /\ itTrace' = Append(itTrace,
                   ItCall("next", c, FALSE, items[cursors[c].index + 1]))
       ELSE /\ cursors' = cursors
            /\ itTrace' = Append(itTrace, ItCall("next", c, TRUE, None))
    /\ items' = items
    /\ UNCHANGED <<obsVars, sgVars, stVars, dcVars>>

\* A __next__ that returns the item and forgets to advance the index.
IterNextNoAdvance(c) ==
    /\ Len(itTrace) < MaxItCalls
    /\ c \in 1..Len(cursors)
    /\ IF cursors[c].index < Len(items)
       THEN itTrace' = Append(itTrace,
                ItCall("next", c, FALSE, items[cursors[c].index + 1]))
       ELSE itTrace' = Append(itTrace, ItCall("next", c, TRUE, None))
    /\ cursors' = cursors
    /\ items' = items
    /\ UNCHANGED <<obsVars, sgVars, stVars, dcVars>>

\* A __next__ whose position is shared by all cursors (a class attribute).
IterNextSharedIndex(c) ==
    /\ Len(itTrace) < MaxItCalls
    /\ c \in 1..Len(cursors)
    /\ IF cursors[c].index < Len(items)
       THEN /\ cursors' = [d \in 1..Len(cursors) |-> [index |-> cursors[c].index + 1]]
            /\ itTrace' = Append(itTrace,
                   ItCall("next", c, FALSE, items[cursors[c].index + 1]))
       ELSE /\ cursors' = cursors
            /\ itTrace' = Append(itTrace, ItCall("next", c, TRUE, None))
    /\ items' = items
    /\ UNCHANGED <<obsVars, sgVars, stVars, dcVars>>

\* MyIterator.__next__ (the index is 0-based, sequences are 1-based).
IterNext(c) ==
    /\ Len(itTrace) < MaxItCalls
    /\ c \in 1..Len(cursors)
    /\ IF cursors[c].index < Len(items)
       THEN /\ cursors' = [cursors EXCEPT ![c].index = @ + 1]
            /\ itTrace' = Append(itTrace,
                   ItCall("next", c, FALSE, items[cursors[c].index + 1]))
       ELSE /\ cursors' = cursors
            /\ itTrace' = Append(itTrace, ItCall("next", c, TRUE, None))
    /\ items' = items
    /\ UNCHANGED <<obsVars, sgVars, stVars, dcVars>>

(***************************************************************************)
(*                               Singleton                                 *)
(***************************************************************************)
MaxRefs    == 3
MaxSgCalls == 6

\* via: which of the references handed out the call went through (0: none).
SgCall(op, via, ref) == [op |-> op, via |-> via, ref |-> ref]

SgInit ==
    /\ instance = None
    /\ objs = <<>>
    /\ refs = <<>>
    /\ sgTrace = <<>>

\* A __new__ without the "is None" test: every request makes an object.
SingletonNewAlways ==
    [inst |-> Len(objs) + 1, objs |-> Append(objs, [value |-> 0])]

\* Singleton.__new__: the object Singleton() returns, and the objects that
\* exist afterwards.  An object's identity is its position in objs.
SingletonNew ==
    IF instance = None
    THEN [inst |-> Len(objs) + 1, objs |-> Append(objs, [value |-> 0])]
    ELSE [inst |-> instance, objs |-> objs]

\* A Singleton() request.  The class defines no __init__, so nothing runs
\* after __new__.
Request ==
    /\ Len(sgTrace) < MaxSgCalls
    /\ Len(refs) < MaxRefs
    /\ instance' = SingletonNew.inst
    /\ objs' = SingletonNew.objs
    /\ refs' = Append(refs, SingletonNew.inst)
    /\ sgTrace' = Append(sgTrace, SgCall("new", 0, SingletonNew.inst))
    /\ UNCHANGED <<obsVars, itVars, stVars, dcVars>>

\* Singleton.increment, called through the r-th reference handed out.
Increment(r) ==
    /\ Len(sgTrace) < MaxSgCalls
    /\ r \in 1..Len(refs)
    /\ objs' = [objs EXCEPT ![refs[r]].value = @ + 1]
    /\ UNCHANGED <<instance, refs>>
    /\ sgTrace' = Append(sgTrace, SgCall("increment", r, refs[r]))
    /\ UNCHANGED <<obsVars, itVars, stVars, dcVars>>

(***************************************************************************)
(*                               Strategy                                  *)
(***************************************************************************)
MaxStCalls == 5

Strategies == {"CreditCardPayment", "PayPalPayment", "BankTransferPayment"}
Amounts    == {50, 100}

\* pay(amount) of a concrete strategy: prints one line naming the strategy.
Pay(strategy, amount) == [strategy |-> strategy, amount |-> amount]

StCall(op, arg, pays) == [op |-> op, arg |-> arg, pays |-> pays]

\* The cart the usage section constructs: ShoppingCart(CreditCardPayment()).
StInit ==
    /\ payment_strategy = "CreditCardPayment"
    /\ stTrace = <<StCall("init", "CreditCardPayment", <<>>)>>

\* ShoppingCart.__init__ with any strategy: a new cart, whose history starts here.
NewCart(s) ==
    /\ payment_strategy' = s
    /\ stTrace' = <<StCall("init", s, <<>>)>>
    /\ UNCHANGED <<obsVars, itVars, sgVars, dcVars>>

\* A setter that records the call and keeps the strategy held.
SetPaymentStrategyKeeps(s) ==
    /\ Len(stTrace) < MaxStCalls
    /\ payment_strategy' = payment_strategy
    /\ stTrace' = Append(stTrace, StCall("set", s, <<>>))
    /\ UNCHANGED <<obsVars, itVars, sgVars, dcVars>>

SetPaymentStrategy(s) ==
    /\ Len(stTrace) < MaxStCalls
    /\ payment_strategy' = s
    /\ stTrace' = Append(stTrace, StCall("set", s, <<>>))
    /\ UNCHANGED <<obsVars, itVars, sgVars, dcVars>>

Checkout(amount) ==
    /\ Len(stTrace) < MaxStCalls
    /\ payment_strategy' = payment_strategy
    /\ stTrace' = Append(stTrace,
           StCall("checkout", amount, <<Pay(payment_strategy, amount)>>))
    /\ UNCHANGED <<obsVars, itVars, sgVars, dcVars>>

(***************************************************************************)
(*                               Decorator                                 *)
(***************************************************************************)
MaxWrappers == 3
MaxDcCalls  == 5

Bases    == {"say_name", "add_numbers"}
Wrappers == {"greet", "farewell"}
Names    == {"Alice", "Bob"}
Numbers  == {3, 5}

\* The argument tuples each base function takes.
ArgsOf(base) ==
    IF base = "say_name" THEN {<<n>> : n \in Names}
    ELSE {<<a, b>> : a \in Numbers, b \in Numbers}

Event(ev, args) == [ev |-> ev, args |-> args]

\* The body of say_name (prints the name, returns None) and of add_numbers
\* (returns the sum).  The "body" event marks one execution of the body.
BaseCall(base, args) ==
    IF base = "say_name"
    THEN [events |-> <<Event("body", args)>>, ret |-> None]
    ELSE [events |-> <<Event("body", args)>>, ret |-> args[1] + args[2]]

\* greet's wrapper: print "Hello!", then return what the wrapped call returns.
Greet(inner) ==
    [events |-> <<Event("Hello!", <<>>)>> \o inner.events, ret |-> inner.ret]

\* A farewell wrapper that forgets to return the result.
FarewellDropsResult(inner) ==
    [events |-> inner.events \o <<Event("Goodbye!", <<>>)>>, ret |-> None]

\* farewell's wrapper: make the wrapped call, print "Goodbye!", return its result.
Farewell(inner) ==
    [events |-> inner.events \o <<Event("Goodbye!", <<>>)>>, ret |-> inner.ret]

\* One call of a function decorated with ws (innermost wrapper first); every
\* wrapper passes the arguments on as they are.
RECURSIVE Invoke(_, _, _)
Invoke(ws, base, args) ==
    IF ws = <<>> THEN BaseCall(base, args)
    ELSE IF Last(ws) = "greet"
         THEN Greet(Invoke(SubSeq(ws, 1, Len(ws) - 1), base, args))
         ELSE Farewell(Invoke(SubSeq(ws, 1, Len(ws) - 1), base, args))

DcCall(op, arg, events, ret) ==
    [op |-> op, arg |-> arg, events |-> events, ret |-> ret]

\* The first def statement of the file: say_name, not yet decorated.
DcInit ==
    /\ func = [base |-> "say_name", wrappers |-> <<>>]
    /\ dcTrace = <<DcCall("define", "say_name", <<>>, None)>>

\* A def statement of either base function: a new function, not yet
\* decorated, whose history starts here.
Define(b) ==
    /\ func' = [base |-> b, wrappers |-> <<>>]
    /\ dcTrace' = <<DcCall("define", b, <<>>, None)>>
    /\ UNCHANGED <<obsVars, itVars, sgVars, stVars>>

\* Applying @greet or @farewell to the function.
Decorate(w) ==
    /\ Len(dcTrace) < MaxDcCalls
    /\ Len(func.wrappers) < MaxWrappers
    /\ func' = [func EXCEPT !.wrappers = Append(@, w)]
    /\ dcTrace' = Append(dcTrace, DcCall("decorate", w, <<>>, None))
    /\ UNCHANGED <<obsVars, itVars, sgVars, stVars>>

\* Calling the decorated function.
CallFunc(args) ==
    /\ Len(dcTrace) < MaxDcCalls
    /\ args \in ArgsOf(func.base)
    /\ func' = func
    /\ dcTrace' = Append(dcTrace,
           DcCall("call", args, Invoke(func.wrappers, func.base, args).events,
                  Invoke(func.wrappers, func.base, args).ret))
    /\ UNCHANGED <<obsVars, itVars, sgVars, stVars>>

(***************************************************************************)
(*                            Specifications                               *)
(***************************************************************************)
Init == ObsInit /\ ItInit /\ SgInit /\ StInit /\ DcInit

ObsNext ==
    \/ \E o \in ObserverIds : Attach(o)
    \/ \E o \in ObserverIds : Detach(o)
    \/ \E v \in StateValues : SetState(v)

ItNext ==
    \/ \E x \in Items : AddItem(x)
    \/ Iter
    \/ \E c \in 1..MaxCursors : IterNext(c)

SgNext ==
    \/ Request
    \/ \E r \in 1..MaxRefs : Increment(r)

StNext ==
    \/ \E s \in Strategies : NewCart(s)
    \/ \E s \in Strategies : SetPaymentStrategy(s)
    \/ \E a \in Amounts : Checkout(a)

DcNext ==
    \/ \E b \in Bases : Define(b)
    \/ \E w \in Wrappers : Decorate(w)
    \/ \E args \in ArgsOf("say_name") \cup ArgsOf("add_numbers") : CallFunc(args)

ObserverSpec  == Init /\ [][ObsNext]_vars
IteratorSpec  == Init /\ [][ItNext]_vars
SingletonSpec == Init /\ [][SgNext]_vars
StrategySpec  == Init /\ [][StNext]_vars
DecoratorSpec == Init /\ [][DcNext]_vars

(***************************************************************************)
(*                         Properties: Observer                            *)
(***************************************************************************)
\* l without its earliest entry equal to x (l itself when there is none).
WithoutEarliest(l, x) ==
    IF \A i \in 1..Len(l) : l[i] # x THEN l
    ELSE LET i == CHOOSE k \in 1..Len(l) :
                      l[k] = x /\ \A j \in 1..(k - 1) : l[j] # x
         IN  [k \in 1..(Len(l) - 1) |-> IF k < i THEN l[k] ELSE l[k + 1]]

\* The registrations a history of calls leaves, in the order they were made:
\* attach adds one at the end, a detach that did not fail takes the earliest
\* one of its subscriber away.
RECURSIVE Registrations(_)
Registrations(tr) ==
    IF tr = <<>> THEN <<>>
    ELSE LET e    == Last(tr)
             prev == Registrations(SubSeq(tr, 1, Len(tr) - 1))
         IN  IF e.op = "attach" THEN Append(prev, e.arg)
             ELSE IF e.op = "detach" /\ ~e.raised THEN WithoutEarliest(prev, e.arg)
             ELSE prev

\* The registrations in force when the i-th call was made.
AttachedAt(i) == Registrations(SubSeq(obsTrace, 1, i - 1))

SetCalls == {i \in 1..Len(obsTrace) : obsTrace[i].op = "set"}

NotesTo(i, o) == {k \in 1..Len(obsTrace[i].notes) : obsTrace[i].notes[k].observer = o}

\* C1 as stated: every state-set notifies each subscriber attached at that
\* moment exactly once, only such subscribers, earlier-attached subscribers
\* first, and every notification carries the value just set.
C1_EachSubscriberOnce ==
    \A i \in SetCalls :
        LET notes == obsTrace[i].notes
            regs  == AttachedAt(i)
        IN  /\ \A o \in Range(regs) : Cardinality(NotesTo(i, o)) = 1
            /\ \A k \in 1..Len(notes) :
                   /\ notes[k].observer \in Range(regs)
                   /\ notes[k].state = obsTrace[i].arg
            /\ \A k, m \in 1..Len(notes) :
                   k < m => IndexOf(regs, notes[k].observer)
                                < IndexOf(regs, notes[m].observer)

\* C1 as amended: every state-set sends one notification per registration in
\* force at that moment (a subscriber attached twice is notified twice), in
\* the order the registrations were made, each carrying the value just set;
\* and the subject's state is the value last set.
C1_EachRegistrationOnce ==
    /\ \A i \in SetCalls :
           LET regs == AttachedAt(i)
           IN  obsTrace[i].notes =
                   [k \in 1..Len(regs) |->
                       [observer |-> regs[k], state |-> obsTrace[i].arg]]
    /\ (obsTrace # <<>> /\ Last(obsTrace).op = "set") => state = Last(obsTrace).arg

\* A state-set made with three registrations in force, two of them of the
\* same subscriber.
C1_Witness ==
    \E i \in SetCalls :
        /\ Len(obsTrace[i].notes) = 3
        /\ \E o \in ObserverIds : Cardinality(NotesTo(i, o)) = 2

\* s is not attached between the i-th and the j-th call.
NoAttachBetween(s, i, j) ==
    \A k \in (i + 1)..(j - 1) : ~(obsTrace[k].op = "attach" /\ obsTrace[k].arg = s)

\* No call between the i-th and the j-th changes the registrations.
NoChangeBetween(i, j) ==
    \A k \in (i + 1)..(j - 1) :
        obsTrace[k].op = "set" \/ (obsTrace[k].op = "detach" /\ obsTrace[k].raised)

DetachedOk == {i \in 1..Len(obsTrace) : obsTrace[i].op = "detach" /\ ~obsTrace[i].raised}

NotifiedObservers(i) == [k \in 1..Len(obsTrace[i].notes) |-> obsTrace[i].notes[k].observer]

\* The registrations that stay after the detach made as the i-th call are
\* the ones a later state-set notifies, in their original relative order.
RemainingStillNotified ==
    \A i \in DetachedOk, j \in SetCalls :
        (i < j /\ NoChangeBetween(i, j))
            => NotifiedObservers(j) = WithoutEarliest(AttachedAt(i), obsTrace[i].arg)

\* C2 as stated: after detach(s) succeeds, no later state-set notifies s
\* unless s is attached again in between, and the subscribers that remain
\* attached are still notified, in their original relative order.
C2_DetachedNeverNotified ==
    /\ \A i \in DetachedOk, j \in SetCalls :
           (i < j /\ NoAttachBetween(obsTrace[i].arg, i, j))
               => NotesTo(j, obsTrace[i].arg) = {}
    /\ RemainingStillNotified

\* C2 as amended: after detach(s) succeeds and takes away the only
\* registration of s, no later state-set notifies s unless s is attached again
\* in between; a subscriber attached more than once keeps its other
\* registrations and is still notified once for each.  The registrations that
\* remain are still notified, in their original relative order.
C2_LastRegistrationDetached ==
    /\ \A i \in DetachedOk, j \in SetCalls :
           ( /\ i < j
             /\ NoAttachBetween(obsTrace[i].arg, i, j)
             /\ Cardinality({k \in 1..Len(AttachedAt(i)) :
                                AttachedAt(i)[k] = obsTrace[i].arg}) = 1 )
               => NotesTo(j, obsTrace[i].arg) = {}
    /\ RemainingStillNotified

\* A subscriber with one registration is detached from among others, and a
\* later state-set notifies the others and not it.
C2_Witness ==
    \E i \in DetachedOk, j \in SetCalls :
        /\ i < j
        /\ NoChangeBetween(i, j)
        /\ Len(AttachedAt(i)) >= 2
        /\ Cardinality({k \in 1..Len(AttachedAt(i)) :
                           AttachedAt(i)[k] = obsTrace[i].arg}) = 1
        /\ Len(obsTrace[j].notes) >= 1
        /\ NotesTo(j, obsTrace[i].arg) = {}

\* C9: a detach of a subscriber that is not attached raises, changes neither
\* the list nor the state and notifies nobody; a detach of an attached
\* subscriber does not raise and removes exactly its earliest registration.
C9_DetachStep ==
    (Len(obsTrace') = Len(obsTrace) + 1 /\ Last(obsTrace').op = "detach")
        => LET e == Last(obsTrace')
           IN  /\ e.notes = <<>>
               /\ state' = state
               /\ IF \A k \in 1..Len(observers) : observers[k] # e.arg
                  THEN e.raised /\ observers' = observers
                  ELSE /\ ~e.raised
                       /\ Len(observers') = Len(observers) - 1
                       /\ \E i \in 1..Len(observers) :
                              /\ observers[i] = e.arg
                              /\ \A j \in 1..(i - 1) : observers[j] # e.arg
                              /\ \A k \in 1..Len(observers') :
                                     observers'[k] = IF k < i THEN observers[k]
                                                     ELSE observers[k + 1]

C9_Detach == [][C9_DetachStep]_vars

\* A failed detach has happened, and so has a detach of a subscriber that was
\* attached twice with another subscriber in between.
C9_Witness ==
    /\ \E i \in 1..Len(obsTrace) : obsTrace[i].op = "detach" /\ obsTrace[i].raised
    /\ \E i \in DetachedOk :
           \E a, b \in 1..Len(AttachedAt(i)) :
               a + 1 < b /\ AttachedAt(i)[a] = obsTrace[i].arg
                         /\ AttachedAt(i)[b] = obsTrace[i].arg

(***************************************************************************)
(*                         Properties: Iterator                            *)
(***************************************************************************)
\* The items added by the calls 1..j of the history, in the order added.
RECURSIVE AddedUpTo(_)
AddedUpTo(j) ==
    IF j = 0 THEN <<>>
    ELSE IF itTrace[j].op = "add" THEN Append(AddedUpTo(j - 1), itTrace[j].arg)
    ELSE AddedUpTo(j - 1)

Added == AddedUpTo(Len(itTrace))

\* The position in the history of the call that created cursor c.
CreatedAt(c) ==
    CHOOSE j \in 1..Len(itTrace) : itTrace[j].op = "iter" /\ itTrace[j].arg = c

\* The positions of the __next__ calls on cursor c.
NextCalls(c) == {j \in 1..Len(itTrace) : itTrace[j].op = "next" /\ itTrace[j].arg = c}

\* The outcomes of the __next__ calls on cursor c, in the order made.
Outcomes(c) ==
    LET OfC(e) == e.op = "next" /\ e.arg = c
    IN  SelectSeq(itTrace, OfC)

\* The outcomes of the __next__ calls on cursor c that returned a value.
Yields(c) ==
    LET Returned(e) == ~e.stop
    IN  SelectSeq(Outcomes(c), Returned)

\* How many __next__ calls on c before the j-th call of the history returned
\* a value.
YieldsBefore(c, j) == Cardinality({k \in NextCalls(c) : k < j /\ ~itTrace[k].stop})

NoAddSince(c) == \A j \in (CreatedAt(c) + 1)..Len(itTrace) : itTrace[j].op # "add"

\* C3: for a collection on which add_item was called N times and a cursor
\* obtained from it (no add_item after), each of the cursor's first N __next__
\* calls returns a value, and call N+1 (and every later one) raises
\* StopIteration.
C3_ExhaustionAfterN ==
    \A c \in 1..Len(cursors) :
        NoAddSince(c) =>
            \A k \in 1..Len(Outcomes(c)) : Outcomes(c)[k].stop <=> (k > Len(Added))

\* A cursor over two items that has returned both and then raised.
C3_Witness ==
    \E c \in 1..Len(cursors) :
        /\ NoAddSince(c)
        /\ Len(Added) = 2
        /\ Len(Outcomes(c)) = 3

\* C4: the k-th __next__ call of a cursor that returns a value returns the
\* k-th item added, duplicates included.
C4_AppendOrder ==
    \A c \in 1..Len(cursors) :
        \A k \in 1..Len(Yields(c)) :
            k <= Len(Added) /\ Yields(c)[k].value = Added[k]

\* A cursor has returned three items: the same item twice, then another one.
C4_Witness ==
    \E c \in 1..Len(cursors) :
        /\ Len(Yields(c)) = 3
        /\ Yields(c)[1].value = Yields(c)[2].value
        /\ Yields(c)[2].value # Yields(c)[3].value

\* C8 as stated: what a cursor produces is decided by the contents at its
\* creation: its k-th __next__ call returns the k-th of the items added before
\* the cursor was created, and raises StopIteration when there is none.
C8_SnapshotAtCreation ==
    \A c \in 1..Len(cursors) :
        LET snapshot == AddedUpTo(CreatedAt(c))
        IN  \A k \in 1..Len(Outcomes(c)) :
                IF k <= Len(snapshot)
                THEN ~Outcomes(c)[k].stop /\ Outcomes(c)[k].value = snapshot[k]
                ELSE Outcomes(c)[k].stop

\* C8 as amended: a cursor reads the collection's own list, so add_item calls
\* made after its creation do affect it: a __next__ call on a cursor that has
\* returned y values so far returns item y+1 of the contents at the time of
\* the call, whenever it was added, and raises StopIteration exactly when the
\* collection then holds no more than y items.
C8_LiveContents ==
    \A c \in 1..Len(cursors) :
        \A j \in NextCalls(c) :
            LET y   == YieldsBefore(c, j)
                now == AddedUpTo(j)
            IN  IF y < Len(now)
                THEN ~itTrace[j].stop /\ itTrace[j].value = now[y + 1]
                ELSE itTrace[j].stop

\* A cursor raised StopIteration and later returned an item that was added
\* after the cursor was created.
C8_Witness ==
    \E c \in 1..Len(cursors) :
        \E i, j \in NextCalls(c) :
            /\ i < j
            /\ itTrace[i].stop
            /\ ~itTrace[j].stop
            /\ YieldsBefore(c, j) >= Len(AddedUpTo(CreatedAt(c)))

\* C10, in every state: a cursor's position is between 0 and the number of items.
C10_PositionInRange ==
    \A c \in 1..Len(cursors) : cursors[c].index \in 0..Len(items)

\* C10, in every step: cursors stay and their positions do not decrease, a
\* new cursor starts at 0, and a __next__ call on one cursor changes no other
\* cursor and not the collection.
C10_Step ==
    /\ Len(cursors') >= Len(cursors)
    /\ \A c \in 1..Len(cursors) : cursors'[c].index >= cursors[c].index
    /\ \A c \in (Len(cursors) + 1)..Len(cursors') : cursors'[c].index = 0
    /\ (Len(itTrace') = Len(itTrace) + 1 /\ Last(itTrace').op = "next")
           => /\ items' = items
              /\ Len(cursors') = Len(cursors)
              /\ \A d \in 1..Len(cursors) :
                     d # Last(itTrace').arg => cursors'[d] = cursors[d]

\* C10: cursors over the same collection are independent under any
\* interleaving of their __next__ calls.
C10_IndependentCursors == []C10_PositionInRange /\ [][C10_Step]_vars

\* Two cursors over the same collection at different positions, the second
\* one having moved after the first.
C10_Witness ==
    /\ Len(cursors) = 2
    /\ cursors[1].index = 2
    /\ cursors[2].index = 1
    /\ Last(itTrace).op = "next" /\ Last(itTrace).arg = 2 /\ ~Last(itTrace).stop

(***************************************************************************)
(*                         Properties: Singleton                           *)
(***************************************************************************)
Increments == {j \in 1..Len(sgTrace) : sgTrace[j].op = "increment"}

\* C5: all Singleton() requests return the same object, which is the only
\* one ever made, and after k increment calls through any of the references
\* every reference reads k: no request after the first resets the value.
C5_OneInstance ==
    /\ \A i, j \in 1..Len(refs) : refs[i] = refs[j]
    /\ \A j \in 1..Len(sgTrace) :
           sgTrace[j].op = "new" => sgTrace[j].ref = sgTrace[1].ref
    /\ Len(objs) <= 1
    /\ \A i \in 1..Len(refs) : objs[refs[i]].value = Cardinality(Increments)

\* Three references; increments were made through two of them, and one
\* reference was requested after an increment.
C5_Witness ==
    /\ Len(refs) = 3
    /\ \E i, j \in Increments : sgTrace[i].via # sgTrace[j].via
    /\ \E i \in Increments, j \in 1..Len(sgTrace) : i < j /\ sgTrace[j].op = "new"
    /\ objs[refs[3]].value >= 2

(***************************************************************************)
(*                         Properties: Strategy                            *)
(***************************************************************************)
Checkouts == {j \in 1..Len(stTrace) : stTrace[j].op = "checkout"}

\* The strategy most recently given to the cart before its j-th call: by
\* set_payment_strategy, or else by the constructor.
LatestGiven(j) ==
    LET given == {i \in 1..(j - 1) : stTrace[i].op \in {"init", "set"}}
        last  == CHOOSE i \in given : \A k \in given : k <= i
    IN  stTrace[last].arg

\* C6: each checkout(amount) makes exactly one pay call, pay(amount), on the
\* strategy most recently given to the cart.
C6_PaysLatestStrategy ==
    \A j \in Checkouts :
        stTrace[j].pays = <<[strategy |-> LatestGiven(j), amount |-> stTrace[j].arg]>>

\* A checkout with the constructor's strategy, then a switch to another
\* strategy, then a checkout.
C6_Witness ==
    \E i, j \in Checkouts :
        /\ i < j
        /\ LatestGiven(i) = stTrace[1].arg
        /\ LatestGiven(j) # LatestGiven(i)

(***************************************************************************)
(*                         Properties: Decorator                           *)
(***************************************************************************)
Calls == {j \in 1..Len(dcTrace) : dcTrace[j].op = "call"}

\* How many wrappers of kind w the function carried at its j-th call.
Wrapped(w, j) ==
    Cardinality({i \in 1..(j - 1) : dcTrace[i].op = "decorate" /\ dcTrace[i].arg = w})

\* C7: one call of a function under any stack of greet and farewell wrappers
\* prints one "Hello!" per greet wrapper, all before the body, runs the body
\* once with the caller's arguments, prints one "Goodbye!" per farewell
\* wrapper, all after the body, and returns what the base function returns.
C7_NestingAndResult ==
    \A j \in Calls :
        LET g    == Wrapped("greet", j)
            f    == Wrapped("farewell", j)
            evs  == dcTrace[j].events
            base == dcTrace[1].arg
        IN  /\ Len(evs) = g + 1 + f
            /\ \A k \in 1..g : evs[k].ev = "Hello!"
            /\ evs[g + 1] = [ev |-> "body", args |-> dcTrace[j].arg]
            /\ \A k \in (g + 2)..(g + 1 + f) : evs[k].ev = "Goodbye!"
            /\ dcTrace[j].ret = BaseCall(base, dcTrace[j].arg).ret
            /\ base = "add_numbers" => dcTrace[j].ret = dcTrace[j].arg[1] + dcTrace[j].arg[2]

\* A call of add_numbers wrapped by at least one greet and one farewell.
C7_Witness ==
    \E j \in Calls :
        /\ dcTrace[1].arg = "add_numbers"
        /\ Wrapped("greet", j) >= 1
        /\ Wrapped("farewell", j) >= 1
        /\ dcTrace[j].ret = 8

=============================================================================
